---- MODULE Spec2Model ----
(***************************************************************************)
(* The secret cache and retrieval adapter (src/config/secrets.js), the     *)
(* routes that call it (routes/secrets.js) and the error middleware        *)
(* (middleware/errorHandler.js), as one state machine.                     *)
(*                                                                         *)
(* JavaScript runs one synchronous section at a time.  An async function   *)
(* runs synchronously up to its first await that suspends, so every        *)
(* action below is one such section: the part of getSecret before          *)
(* `await client.send(command)`, and the continuation after it.            *)
(***************************************************************************)
EXTENDS Integers, Sequences, FiniteSets, TLC

\* ---------------------------------------------------------------- bounds
\* clock advances in a run
MaxTicks == 2
\* GET requests suspended at their upstream request at once
MaxPending == 2
\* GET requests suspended at their upstream request while a batch is in
\* progress
MaxAlongside == 0
\* length of the names array of a batch
MaxNames == 2
\* ListSecrets requests suspended at once
MaxLists == 1
\* getSecret calls suspended at their upstream request, and batches in
\* progress, while a ListSecrets request is suspended
MaxBeside == 0

\* ------------------------------------------------------------- constants
CACHE_TTL == 5 * 60 * 1000

\* Secret names the callers use.  "__proto__" is a legal secret name and a
\* special property key of a JavaScript object.
Names == {"A", "__proto__"}

\* The instants at which the model looks at the clock: 0, TTL-1, TTL, 2*TTL-1,
\* 2*TTL, ...  An entry written at one of them is seen at ages 0, 1, TTL-1,
\* TTL and more.  TickStep is the advance from instant t to the next one,
\* Ticks the number of advances that lead to t.
TickStep(t) == IF t % CACHE_TTL = 0 THEN CACHE_TTL - 1 ELSE 1
Ticks(t) == 2 * (t \div CACHE_TTL) + (IF t % CACHE_TTL = 0 THEN 0 ELSE 1)

\* ---------------------------------------------------------------- values
\* A JavaScript value: undefined, a string, null, a boolean, a string, a parsed JSON
\* structure (Obj names it by its canonical text), a byte array or an array.
Undefined == [t |-> "undefined", v |-> "", items |-> <<>>]
Null == [t |-> "null", v |-> "", items |-> <<>>]
Bool(x) == [t |-> "boolean", v |-> IF x THEN "true" ELSE "false", items |-> <<>>]
Str(s) == [t |-> "string", v |-> s, items |-> <<>>]
Obj(s) == [t |-> "object", v |-> s, items |-> <<>>]
Bytes(bs) == [t |-> "bytes", v |-> "", items |-> bs]
Arr(xs) == [t |-> "array", v |-> "", items |-> xs]

\* JavaScript truthiness: undefined, null, false and the empty string are
\* falsy; every object (an array or a byte array too, even an empty one) is
\* truthy.
Truthy(x) == /\ x.t \notin {"undefined", "null"}
             /\ ~(x.t = "boolean" /\ x.v = "false")
             /\ ~(x.t = "string" /\ x.v = "")
ArrayIsArray(x) == x.t = "array"

\* The texts among the payloads that are JSON documents, with the structure
\* JSON.parse gives for each; JSON.parse throws on every other text.
JsonTexts == {"{\"k\":1}"}
JSONParse(s) ==
  IF s \in JsonTexts
    THEN [threw |-> FALSE, value |-> Obj("k=1")]
    ELSE [threw |-> TRUE, value |-> Undefined]

\* Buffer.from(bytes, 'base64').toString('utf-8') on a byte array: the
\* encoding argument is ignored for a byte array and the bytes are read as
\* UTF-8 text.
Chr(c) == CASE c = 104 -> "h" [] c = 101 -> "e" [] c = 108 -> "l"
            [] c = 111 -> "o" [] OTHER -> "?"
RECURSIVE BufferToString(_)
BufferToString(bs) ==
  IF bs = <<>> THEN "" ELSE Chr(Head(bs)) \o BufferToString(Tail(bs))

\* ------------------------------------------------------ upstream outcomes
\* What `await client.send(new GetSecretValueCommand(..))` gives: a response
\* with the two optional payloads, or a rejection with an error.
Response(text, bin) ==
  [rejected |-> FALSE, SecretString |-> text, SecretBinary |-> bin,
   errName |-> "", errMessage |-> ""]
Rejection(name, message) ==
  [rejected |-> TRUE, SecretString |-> Undefined, SecretBinary |-> Undefined,
   errName |-> name, errMessage |-> message]

Outcomes ==
  { Response(Str("{\"k\":1}"), Undefined),
    Response(Str("hello"), Undefined),
    Response(Str(""), Undefined),
    Response(Undefined, Bytes(<<104, 101, 108, 108, 111>>)),
    Response(Str("{\"k\":1}"), Bytes(<<104, 101, 108, 108, 111>>)),
    Response(Str(""), Bytes(<<104, 101, 108, 108, 111>>)),
    Response(Undefined, Undefined),
    Rejection("ResourceNotFoundException", "no such secret"),
    Rejection("AccessDeniedException", "not authorized"),
    Rejection("DecryptionFailureException", "cannot decrypt"),
    Rejection("InternalServiceError", "try again") }

\* What `await client.send(new ListSecretsCommand(..))` gives: a response
\* with or without SecretList, or a rejection with an error.
ListResponse(list) ==
  [rejected |-> FALSE, SecretList |-> list, errName |-> "", errMessage |-> ""]
ListRejection(name, message) ==
  [rejected |-> TRUE, SecretList |-> Undefined, errName |-> name,
   errMessage |-> message]
ListOutcomes ==
  { ListResponse(Arr(<<"A", "__proto__">>)),
    ListResponse(Undefined),
    ListRejection("AccessDeniedException", "not authorized"),
    ListRejection("InternalServiceError", "try again") }

\* ------------------------------------------------------------------ Map
\* secretCache is a Map: a function whose domain is the set of keys it has.
EmptyMap == [k \in {} |-> Undefined]
MapHas(m, k) == k \in DOMAIN m
MapSet(m, k, e) == [x \in (DOMAIN m) \cup {k} |-> IF x = k THEN e ELSE m[x]]
MapDeleteAll(m, k) == EmptyMap
MapDelete(m, k) == [x \in (DOMAIN m) \ {k} |-> m[x]]
MapClearNothing(m) == m
MapClear(m) == EmptyMap

\* ------------------------------------------------- plain objects as maps
\* results and errors of getMultipleSecrets are plain objects.  Assigning
\* obj["__proto__"] = x runs the inherited __proto__ setter: it creates no
\* own property (it replaces the prototype when x is an object and does
\* nothing when x is a string), so Object.keys and JSON.stringify never
\* show the key.  Every other key becomes an own property.
ObjSetPlain(o, k, x) == MapSet(o, k, x)
ObjSet(o, k, x) == IF k = "__proto__" THEN o ELSE MapSet(o, k, x)
ObjectKeys(o) == DOMAIN o

\* ------------------------------------------------------------- getSecret
\* new Error(message): an Error carries no statusCode and no status (0
\* stands for the absent property, which `||` treats like 0).
NewError(message) == [message |-> message, statusCode |-> 0, status |-> 0]

\* The cache check of getSecret: the call is served from the cache.
CacheHitInclusive(cache, secretName, useCache, t) ==
  /\ useCache
  /\ MapHas(cache, secretName)
  /\ (t - cache[secretName].timestamp) <= CACHE_TTL
CacheHitSeconds(cache, secretName, useCache, t) ==
  /\ useCache
  /\ MapHas(cache, secretName)
  /\ (t - cache[secretName].timestamp) < 5 * 60
CacheHitAlways(cache, secretName, useCache, t) ==
  /\ MapHas(cache, secretName)
  /\ (t - cache[secretName].timestamp) < CACHE_TTL
CacheHit(cache, secretName, useCache, t) ==
  /\ useCache
  /\ MapHas(cache, secretName)
  /\ (t - cache[secretName].timestamp) < CACHE_TTL

\* "Parse the secret value": the textual payload when it is truthy, else
\* the binary payload when it is truthy, else the throw of line 62.
ParseSecretValueBinaryFirst(response) ==
  IF Truthy(response.SecretBinary)
    THEN LET s == BufferToString(response.SecretBinary.items)
             p == JSONParse(s)
         IN  [threw |-> FALSE, value |-> IF p.threw THEN Str(s) ELSE p.value]
    ELSE IF Truthy(response.SecretString)
      THEN LET p == JSONParse(response.SecretString.v)
           IN  [threw |-> FALSE,
                value |-> IF p.threw THEN response.SecretString ELSE p.value]
      ELSE [threw |-> TRUE, value |-> Undefined]
ParseSecretValue(response) ==
  IF Truthy(response.SecretString)
    THEN LET p == JSONParse(response.SecretString.v)
         IN  [threw |-> FALSE,
              value |-> IF p.threw THEN response.SecretString ELSE p.value]
    ELSE IF Truthy(response.SecretBinary)
      THEN LET s == BufferToString(response.SecretBinary.items)
               p == JSONParse(s)
           IN  [threw |-> FALSE, value |-> IF p.threw THEN Str(s) ELSE p.value]
      ELSE [threw |-> TRUE, value |-> Undefined]

\* The catch block: the error getSecret throws for a caught error.
CatchBlockNoName(secretName, errName, errMessage) ==
  IF errName = "ResourceNotFoundException"
    THEN NewError("Secret not found")
  ELSE IF errName = "AccessDeniedException"
    THEN NewError("Access denied. Check IAM role permissions.")
  ELSE IF errName = "DecryptionFailureException"
    THEN NewError("Failed to decrypt secret")
  ELSE NewError("Failed to retrieve secret: " \o errMessage)
CatchBlock(secretName, errName, errMessage) ==
  IF errName = "ResourceNotFoundException"
    THEN NewError("Secret '" \o secretName \o "' not found")
  ELSE IF errName = "AccessDeniedException"
    THEN NewError("Access denied to secret '" \o secretName
                  \o "'. Check IAM role permissions.")
  ELSE IF errName = "DecryptionFailureException"
    THEN NewError("Failed to decrypt secret '" \o secretName \o "'")
  ELSE NewError("Failed to retrieve secret '" \o secretName \o "': "
                \o errMessage)

\* The four upstream categories of a failure, by the name of the error.
Category(errName) ==
  CASE errName = "ResourceNotFoundException" -> "not-found"
    [] errName = "AccessDeniedException" -> "access-denied"
    [] errName = "DecryptionFailureException" -> "decryption-failure"
    [] OTHER -> "other"

\* "Update cache": the statement after the parse, reached only when nothing
\* threw before it; t is Date.now().
UpdateCacheOnFailureToo(cache, secretName, threw, secretValue, t) ==
  MapSet(cache, secretName, [secret |-> secretValue, timestamp |-> t])
UpdateCacheNever(cache, secretName, threw, secretValue, t) == cache
UpdateCacheFirstWriter(cache, secretName, threw, secretValue, t) ==
  IF threw \/ (MapHas(cache, secretName)
               /\ t - cache[secretName].timestamp < CACHE_TTL)
    THEN cache
    ELSE MapSet(cache, secretName, [secret |-> secretValue, timestamp |-> t])
UpdateCache(cache, secretName, threw, secretValue, t) ==
  IF threw
    THEN cache
    ELSE MapSet(cache, secretName, [secret |-> secretValue, timestamp |-> t])

\* getSecret from the await of line 41 on: `outcome` is what client.send
\* settled with, t is Date.now().  Gives whether getSecret threw, what it
\* returned or threw, and the cache it leaves.  A rejection of client.send
\* and the throw of line 62 both land in the catch block.
Resume(cache, secretName, outcome, t) ==
  LET d == IF outcome.rejected
             THEN [threw |-> TRUE, value |-> Undefined]
             ELSE ParseSecretValue(outcome)
      errName == IF outcome.rejected THEN outcome.errName ELSE "Error"
      errMessage == IF outcome.rejected THEN outcome.errMessage
                    ELSE "Secret value is empty"
  IN  [threw |-> d.threw,
       value |-> d.value,
       error |-> IF d.threw THEN CatchBlock(secretName, errName, errMessage)
                 ELSE NewError(""),
       cache |-> UpdateCache(cache, secretName, d.threw, d.value, t)]

\* ----------------------------------------------------------- listSecrets
\* listSecrets from its await on: `response.SecretList || []`, or the error
\* of its catch block.  It has no statement that names secretCache.
ListResume(outcome) ==
  IF outcome.rejected
    THEN [threw |-> TRUE, value |-> Undefined,
          error |-> IF outcome.errName = "AccessDeniedException"
                      THEN NewError("Access denied to list secrets. Check IAM role permissions.")
                      ELSE NewError("Failed to list secrets: " \o outcome.errMessage)]
    ELSE [threw |-> FALSE,
          value |-> IF Truthy(outcome.SecretList) THEN outcome.SecretList
                    ELSE Arr(<<>>),
          error |-> NewError("")]

\* ---------------------------------------------------------- errorHandler
\* The status the error middleware answers with for an error.
errorHandler(err) ==
  IF err.statusCode # 0 THEN err.statusCode
  ELSE IF err.status # 0 THEN err.status
  ELSE 500

\* ---------------------------------------------------------------- routes
\* decodeURIComponent on the route parameters the model sends: "%41" is an
\* escaped "A", a lone "%" is malformed and throws URIError.
RouteParams == {"A", "%41", "__proto__", "%"}
decodeURIComponent(s) ==
  IF s = "%" THEN [threw |-> TRUE, value |-> "", error |-> NewError("URI malformed")]
  ELSE IF s = "%41" THEN [threw |-> FALSE, value |-> "A", error |-> NewError("")]
  ELSE [threw |-> FALSE, value |-> s, error |-> NewError("")]

\* req.query.maxResults, and `parseInt(req.query.maxResults) || 100`:
\* parseInt gives NaN for a missing or non-numeric value, and NaN and 0 are
\* falsy.
MaxResultsValues == {Undefined, Str("5"), Str("0"), Str("all")}
ParseInt(q) ==
  CASE q = Str("5") -> 5 [] q = Str("0") -> 0 [] OTHER -> -1  \* -1 is NaN
MaxResultsOfQuery(q) ==
  IF ParseInt(q) = -1 \/ ParseInt(q) = 0 THEN 100 ELSE ParseInt(q)

\* req.query.useCache, and `req.query.useCache !== 'false'`.
QueryValues == {Undefined, Str("true"), Str("false")}
UseCacheOfQuery(q) == q # Str("false")

\* The bodies of POST /secrets/batch: names is missing, null, a string, an
\* empty array or an array of up to MaxNames names (repeats included);
\* useCache is missing or a boolean.
RECURSIVE SeqsUpTo(_, _)
SeqsUpTo(S, n) ==
  IF n = 0 THEN {<<>>}
  ELSE LET shorter == SeqsUpTo(S, n - 1)
       IN  shorter \cup {Append(q, x) : q \in shorter, x \in S}
BodyNames ==
  {Undefined, Null, Str("A")} \cup {Arr(q) : q \in SeqsUpTo(Names, MaxNames)}
BodyUseCache == {Undefined, Bool(TRUE), Bool(FALSE)}
\* The guard of the 400 answer.
BadNamesMissingOnly(names) == ~Truthy(names)
BadNames(names) ==
  \/ ~Truthy(names)
  \/ ~ArrayIsArray(names)
  \/ Len(names.items) = 0
\* `useCache = true` in the destructuring: the default replaces undefined.
DefaultTrue(x) == IF x = Undefined THEN Bool(TRUE) ELSE x

\* ---------------------------------------------------- getMultipleSecrets
\* The promise of one callback of the map, given how its getSecret call
\* stands ("pending", "returned", "thrown"): the try/catch turns a throw of
\* getSecret into an entry of errors, so the promise never rejects.
CallbackPromiseNoCatch(call) ==
  IF call = "pending" THEN "pending"
  ELSE IF call = "thrown" THEN "rejected" ELSE "fulfilled"
CallbackPromiseLost(call) == IF call = "returned" THEN "fulfilled" ELSE "pending"
CallbackPromise(call) == IF call = "pending" THEN "pending" ELSE "fulfilled"

\* Promise.all: rejected as soon as one promise is, fulfilled when all are.
PromiseAll(ps) ==
  IF \E k \in DOMAIN ps : ps[k] = "rejected" THEN "rejected"
  ELSE IF \A k \in DOMAIN ps : ps[k] = "fulfilled" THEN "fulfilled"
  ELSE "pending"

\* The body of a callback after its await: results[secretName] = value, or
\* errors[secretName] = error.message.
ResultsAfter(results, secretName, threw, value) ==
  IF threw THEN results ELSE ObjSet(results, secretName, value)
ErrorsAfter(errors, secretName, threw, message) ==
  IF threw THEN ObjSet(errors, secretName, Str(message)) ELSE errors

\* The value returned: errors is undefined when the object has no keys.
BatchResultAlwaysErrors(results, errors) ==
  [secrets |-> results, errorsDefined |-> TRUE, errors |-> errors]
BatchResult(results, errors) ==
  [secrets |-> results,
   errorsDefined |-> Cardinality(ObjectKeys(errors)) > 0,
   errors |-> IF Cardinality(ObjectKeys(errors)) > 0 THEN errors ELSE EmptyMap]
NoResult == [secrets |-> EmptyMap, errorsDefined |-> FALSE, errors |-> EmptyMap]

\* ----------------------------------------------------------------- state
VARIABLES
  secretCache,  \* the module's Map: secret name -> [secret, timestamp]
  now,          \* Date.now(), in milliseconds since the module was loaded
  inflight,     \* the getSecret calls suspended at `await client.send`, in
                \* the order they were issued: [name, owner], owner 0 for
                \* the GET route, k for the k-th name of the batch
  batch,        \* the getMultipleSecrets call in progress
  lastReturn,   \* the latest getSecret call that returned a value: its
                \* name, the time it returned at and the value
  last,         \* what the latest step did and answered
  lists         \* the listSecrets calls suspended at `await client.send`

vars == <<secretCache, now, inflight, batch, lastReturn, last, lists>>

NoBatch ==
  [active |-> FALSE, names |-> <<>>, calls |-> <<>>,
   results |-> EmptyMap, errors |-> EmptyMap]

NeverReturned == [done |-> FALSE, name |-> "", at |-> 0, value |-> Undefined]
Returned(secretName, t, value) ==
  [done |-> TRUE, name |-> secretName, at |-> t, value |-> value]

\* A step's record: the operation, the secret name and useCache it was about,
\* how the getSecret call stands after it ("pending" at the await,
\* "returned", "thrown"), whether the value came from the cache, the
\* upstream requests and getMultipleSecrets calls the step made, the value
\* or error message, the name of the upstream error, the HTTP status, the
\* names of the request body and the batch result answered, the ListSecrets
\* requests the step made and their MaxResults, and for a call that
\* resumed the place it had among the suspended calls and what client.send
\* settled with.
Quiet ==
  [op |-> "load", name |-> "", useCache |-> FALSE, state |-> "none",
   fromCache |-> FALSE, sent |-> 0, batchCalls |-> 0, value |-> Undefined,
   message |-> "", errName |-> "", status |-> 0, body |-> Undefined,
   result |-> NoResult, listSent |-> 0, maxResults |-> 0,
   place |-> 0, response |-> Response(Undefined, Undefined)]

Init ==
  /\ secretCache = EmptyMap
  /\ now = 0
  /\ inflight = <<>>
  /\ batch = NoBatch
  /\ lastReturn = NeverReturned
  /\ last = Quiet
  /\ lists = 0

\* The suspended calls of GET requests.
IsGet(c) == c.owner = 0
GetsInFlight == Len(SelectSeq(inflight, IsGet))

\* The suspended getSecret calls and the batch in progress.
Busy == Len(inflight) + (IF batch.active THEN 1 ELSE 0)

RemoveAt(q, i) == [j \in 1..(Len(q) - 1) |-> IF j < i THEN q[j] ELSE q[j + 1]]


\* --------------------------------------------------------------- actions
\* The clock advances.
Tick ==
  /\ Ticks(now) < MaxTicks
  /\ now' = now + TickStep(now)
  /\ last' = [Quiet EXCEPT !.op = "Tick"]
  /\ UNCHANGED <<secretCache, inflight, batch, lastReturn, lists>>

\* clearCache()
clearCache ==
  /\ secretCache' = MapClear(secretCache)
  /\ last' = [Quiet EXCEPT !.op = "clearCache"]
  /\ UNCHANGED <<now, inflight, batch, lastReturn, lists>>

\* clearSecretCache(secretName)
clearSecretCache(secretName) ==
  /\ secretCache' = MapDelete(secretCache, secretName)
  /\ last' = [Quiet EXCEPT !.op = "clearSecretCache", !.name = secretName]
  /\ UNCHANGED <<now, inflight, batch, lastReturn, lists>>

\* GET /secrets/:name whose parameter does not decode: the handler's catch
\* passes the URIError to the error middleware.
GetSecretRouteMalformed(param) ==
  /\ decodeURIComponent(param).threw
  /\ last' = [Quiet EXCEPT !.op = "GetSecretRouteMalformed", !.state = "none",
                !.message = decodeURIComponent(param).error.message,
                !.status = errorHandler(decodeURIComponent(param).error)]
  /\ UNCHANGED <<secretCache, now, inflight, batch, lastReturn, lists>>

\* GET /secrets/:name up to the await: getSecret is served from the cache
\* and the handler answers 200, or getSecret sends GetSecretValue and
\* suspends.
GetSecretRouteSliding(param, query) ==
  /\ ~decodeURIComponent(param).threw
  /\ LET secretName == decodeURIComponent(param).value
         useCache == UseCacheOfQuery(query)
         ev == [Quiet EXCEPT !.op = "GetSecretRoute", !.name = secretName,
                             !.useCache = useCache]
     IN  IF CacheHit(secretCache, secretName, useCache, now)
           THEN /\ last' = [ev EXCEPT !.state = "returned", !.fromCache = TRUE,
                                      !.value = secretCache[secretName].secret,
                                      !.status = 200]
                /\ lastReturn' = Returned(secretName, now,
                                          secretCache[secretName].secret)
                /\ secretCache' = [secretCache EXCEPT
                                     ![secretName].timestamp = now]
                /\ UNCHANGED inflight
           ELSE /\ GetsInFlight < (IF batch.active THEN MaxAlongside
                                                    ELSE MaxPending)
                /\ lists = 0 \/ Busy < MaxBeside
                /\ inflight' = Append(inflight, [name |-> secretName, owner |-> 0])
                /\ last' = [ev EXCEPT !.state = "pending", !.sent = 1]
                /\ UNCHANGED <<lastReturn, secretCache>>
  /\ UNCHANGED <<now, batch, lists>>
GetSecretRoute(param, query) ==
  /\ ~decodeURIComponent(param).threw
  /\ LET secretName == decodeURIComponent(param).value
         useCache == UseCacheOfQuery(query)
         ev == [Quiet EXCEPT !.op = "GetSecretRoute", !.name = secretName,
                             !.useCache = useCache]
     IN  IF CacheHit(secretCache, secretName, useCache, now)
           THEN /\ last' = [ev EXCEPT !.state = "returned", !.fromCache = TRUE,
                                      !.value = secretCache[secretName].secret,
                                      !.status = 200]
                /\ lastReturn' = Returned(secretName, now,
                                          secretCache[secretName].secret)
                /\ UNCHANGED inflight
           ELSE /\ GetsInFlight < (IF batch.active THEN MaxAlongside
                                                    ELSE MaxPending)
                /\ lists = 0 \/ Busy < MaxBeside
                /\ inflight' = Append(inflight, [name |-> secretName, owner |-> 0])
                /\ last' = [ev EXCEPT !.state = "pending", !.sent = 1]
                /\ UNCHANGED lastReturn
  /\ UNCHANGED <<secretCache, now, batch, lists>>

\* client.send settles for the i-th suspended call, one of the GET route:
\* getSecret resumes, and the handler answers 200 with the value or passes
\* the error to the error middleware.
RespondGetRetry(i, outcome) ==
  /\ i \in 1..Len(inflight)
  /\ inflight[i].owner = 0
  /\ LET secretName == inflight[i].name
         r == Resume(secretCache, secretName, outcome, now)
         again == outcome.rejected /\ Category(outcome.errName) = "other"
     IN  /\ secretCache' = r.cache
         /\ lastReturn' = IF r.threw THEN lastReturn
                          ELSE Returned(secretName, now, r.value)
         /\ last' = [Quiet EXCEPT !.op = "RespondGet", !.name = secretName,
                       !.state = IF again THEN "pending"
                                 ELSE IF r.threw THEN "thrown" ELSE "returned",
                       !.sent = IF again THEN 1 ELSE 0,
                       !.value = r.value, !.message = r.error.message,
                       !.errName = outcome.errName,
                       !.status = IF again THEN 0
                                  ELSE IF r.threw THEN errorHandler(r.error)
                                  ELSE 200,
                       !.place = i, !.response = outcome]
         /\ inflight' = IF again
                          THEN Append(RemoveAt(inflight, i), inflight[i])
                          ELSE RemoveAt(inflight, i)
  /\ UNCHANGED <<now, batch, lists>>
RespondGet(i, outcome) ==
  /\ i \in 1..Len(inflight)
  /\ inflight[i].owner = 0
  /\ LET secretName == inflight[i].name
         r == Resume(secretCache, secretName, outcome, now)
     IN  /\ secretCache' = r.cache
         /\ lastReturn' = IF r.threw THEN lastReturn
                          ELSE Returned(secretName, now, r.value)
         /\ last' = [Quiet EXCEPT !.op = "RespondGet", !.name = secretName,
                       !.state = IF r.threw THEN "thrown" ELSE "returned",
                       !.value = r.value, !.message = r.error.message,
                       !.errName = outcome.errName,
                       !.status = IF r.threw THEN errorHandler(r.error) ELSE 200,
                       !.place = i, !.response = outcome]
  /\ inflight' = RemoveAt(inflight, i)
  /\ UNCHANGED <<now, batch, lists>>

\* POST /secrets/batch with a body the guard rejects: 400, and nothing of
\* the adapter is called.
PostBatchBadRequest(names, useCacheIn) ==
  /\ BadNames(names)
  /\ last' = [Quiet EXCEPT !.op = "PostBatchBadRequest", !.status = 400,
                !.body = names,
                !.message = "Request body must include a \"names\" array with at least one secret name"]
  /\ UNCHANGED <<secretCache, now, inflight, batch, lastReturn, lists>>

\* The callbacks whose getSecret was served from the cache run their
\* continuations in index order.
RECURSIVE SettleHits(_, _, _, _, _)
SettleHits(results, cache, secretNames, calls, k) ==
  IF k > Len(secretNames) THEN results
  ELSE SettleHits(IF calls[k] # "pending"
                    THEN ResultsAfter(results, secretNames[k], FALSE,
                                      cache[secretNames[k]].secret)
                    ELSE results,
                  cache, secretNames, calls, k + 1)

\* The latest of the calls served from the cache, if there is one.
RECURSIVE LastHit(_, _, _, _, _, _)
LastHit(prev, cache, secretNames, calls, t, k) ==
  IF k > Len(secretNames) THEN prev
  ELSE LastHit(IF calls[k] # "pending"
                 THEN Returned(secretNames[k], t, cache[secretNames[k]].secret)
                 ELSE prev,
               cache, secretNames, calls, t, k + 1)

\* POST /secrets/batch with a names array: the handler calls
\* getMultipleSecrets, whose map runs every callback up to its await in one
\* synchronous section: each getSecret is served from the cache or sends its
\* own GetSecretValue.  (One batch is in progress at a time.)
PostBatch(names, useCacheIn) ==
  /\ ~BadNames(names)
  /\ ~batch.active
  /\ \A i \in 1..Len(inflight) : inflight[i].owner = 0
  /\ LET secretNames == names.items
         n == Len(secretNames)
         useCache == Truthy(DefaultTrue(useCacheIn))
         hit(k) == CacheHit(secretCache, secretNames[k], useCache, now)
         Miss(k) == ~hit(k)
         misses == SelectSeq([k \in 1..n |-> k], Miss)
         calls == [k \in 1..n |-> IF hit(k) THEN "returned" ELSE "pending"]
     IN  /\ GetsInFlight <= MaxAlongside
         /\ lists = 0 \/ Busy + Len(misses) < MaxBeside
         /\ inflight' = inflight \o
              [j \in 1..Len(misses) |->
                 [name |-> secretNames[misses[j]], owner |-> misses[j]]]
         /\ batch' = [active |-> TRUE, names |-> secretNames,
                      calls |-> calls,
                      results |-> SettleHits(EmptyMap, secretCache, secretNames,
                                             calls, 1),
                      errors |-> EmptyMap]
         /\ lastReturn' = LastHit(lastReturn, secretCache, secretNames, calls,
                                  now, 1)
         /\ last' = [Quiet EXCEPT !.op = "PostBatch", !.useCache = useCache,
                       !.body = names,
                       !.state = "pending", !.sent = Len(misses),
                       !.batchCalls = 1]
  /\ UNCHANGED <<secretCache, now, lists>>

\* client.send settles for the i-th suspended call, the k-th of the batch:
\* getSecret resumes and the callback records the value or the message.
RespondBatch(i, outcome) ==
  /\ i \in 1..Len(inflight)
  /\ inflight[i].owner > 0
  /\ LET secretName == inflight[i].name
         k == inflight[i].owner
         r == Resume(secretCache, secretName, outcome, now)
     IN  /\ secretCache' = r.cache
         /\ lastReturn' = IF r.threw THEN lastReturn
                          ELSE Returned(secretName, now, r.value)
         /\ batch' = IF batch.active
                       THEN [batch EXCEPT
                               !.calls[k] = IF r.threw THEN "thrown" ELSE "returned",
                               !.results = ResultsAfter(@, secretName, r.threw, r.value),
                               !.errors = ErrorsAfter(@, secretName, r.threw,
                                                      r.error.message)]
                       ELSE batch
         /\ last' = [Quiet EXCEPT !.op = "RespondBatch", !.name = secretName,
                       !.state = IF r.threw THEN "thrown" ELSE "returned",
                       !.value = r.value, !.message = r.error.message,
                       !.errName = outcome.errName,
                       !.place = i, !.response = outcome]
  /\ inflight' = RemoveAt(inflight, i)
  /\ UNCHANGED <<now, lists>>

\* `await Promise.all(promises)` settles: getMultipleSecrets returns its
\* result and the handler answers 200 with it (were Promise.all to reject,
\* getMultipleSecrets would throw and the handler answer through the error
\* middleware).
BatchReturn ==
  /\ batch.active
  /\ LET all == PromiseAll([k \in 1..Len(batch.names) |->
                              CallbackPromise(batch.calls[k])])
     IN  /\ all # "pending"
         /\ last' = IF all = "fulfilled"
              THEN [Quiet EXCEPT !.op = "BatchReturn", !.state = "returned",
                      !.status = 200,
                      !.result = BatchResult(batch.results, batch.errors)]
              ELSE [Quiet EXCEPT !.op = "BatchReturn", !.state = "thrown",
                      !.status = errorHandler(NewError(""))]
  /\ batch' = NoBatch
  /\ UNCHANGED <<secretCache, now, inflight, lastReturn, lists>>

\* GET /secrets up to the await: listSecrets sends ListSecrets and
\* suspends.
ListSecretsRouteCached(query) ==
  /\ lists < MaxLists
  /\ Busy <= MaxBeside
  /\ IF secretCache = EmptyMap
       THEN /\ lists' = lists + 1
            /\ last' = [Quiet EXCEPT !.op = "ListSecretsRoute",
                          !.state = "pending", !.listSent = 1,
                          !.maxResults = MaxResultsOfQuery(query)]
       ELSE /\ lists' = lists
            /\ last' = [Quiet EXCEPT !.op = "ListSecretsRoute",
                          !.state = "returned", !.status = 200,
                          !.maxResults = MaxResultsOfQuery(query)]
  /\ UNCHANGED <<secretCache, now, inflight, batch, lastReturn>>
ListSecretsRoute(query) ==
  /\ lists < MaxLists
  /\ Busy <= MaxBeside
  /\ lists' = lists + 1
  /\ last' = [Quiet EXCEPT !.op = "ListSecretsRoute", !.state = "pending",
                !.listSent = 1, !.maxResults = MaxResultsOfQuery(query)]
  /\ UNCHANGED <<secretCache, now, inflight, batch, lastReturn>>

\* client.send settles for a suspended listSecrets call: the handler
\* answers 200 with the list or passes the error to the error middleware.
RespondList(outcome) ==
  /\ lists > 0
  /\ lists' = lists - 1
  /\ LET r == ListResume(outcome)
     IN  last' = [Quiet EXCEPT !.op = "RespondList",
                    !.state = IF r.threw THEN "thrown" ELSE "returned",
                    !.value = r.value, !.message = r.error.message,
                    !.errName = outcome.errName,
                    !.status = IF r.threw THEN errorHandler(r.error) ELSE 200]
  /\ UNCHANGED <<secretCache, now, inflight, batch, lastReturn>>

Next ==
  \/ Tick
  \/ clearCache
  \/ \E secretName \in Names : clearSecretCache(secretName)
  \/ \E param \in RouteParams : GetSecretRouteMalformed(param)
  \/ \E param \in RouteParams, query \in QueryValues : GetSecretRoute(param, query)
  \/ \E i \in 1..(MaxPending + MaxNames), outcome \in Outcomes :
        RespondGet(i, outcome)
  \/ \E names \in BodyNames, useCacheIn \in BodyUseCache :
        PostBatchBadRequest(names, useCacheIn)
  \/ \E names \in BodyNames, useCacheIn \in BodyUseCache : PostBatch(names, useCacheIn)
  \/ \E i \in 1..(MaxPending + MaxNames), outcome \in Outcomes :
        RespondBatch(i, outcome)
  \/ BatchReturn
  \/ \E query \in MaxResultsValues : ListSecretsRoute(query)
  \/ \E outcome \in ListOutcomes : RespondList(outcome)

Spec == Init /\ [][Next]_vars

\* client.send settles for the oldest suspended call.
RespondOldest ==
  \E outcome \in Outcomes : RespondGet(1, outcome) \/ RespondBatch(1, outcome)

\* The requests for secrets, their answers and the invalidations at one
\* reading of the clock, under the conditions that
\* every upstream request is answered in the end (the oldest suspended call
\* does not wait for ever, so no call does) and that the event loop runs a
\* continuation that is ready (getMultipleSecrets resumes once Promise.all
\* has settled).
NextFetch ==
  \/ clearCache
  \/ \E secretName \in Names : clearSecretCache(secretName)
  \/ \E param \in RouteParams, query \in QueryValues : GetSecretRoute(param, query)
  \/ \E i \in 1..(MaxPending + MaxNames), outcome \in Outcomes :
        RespondGet(i, outcome)
  \/ \E names \in BodyNames, useCacheIn \in BodyUseCache : PostBatch(names, useCacheIn)
  \/ \E i \in 1..(MaxPending + MaxNames), outcome \in Outcomes :
        RespondBatch(i, outcome)
  \/ BatchReturn

FairSpec ==
  /\ Init
  /\ [][NextFetch]_vars
  /\ WF_vars(RespondOldest)
  /\ WF_vars(BatchReturn)

\* ------------------------------------------------------------ the claims
\* A step in which a getSecret call starts for secretName with useCache:
\* a GET request, or a batch whose names hold secretName.
StartsGet(secretName, useCache) ==
  /\ last'.op = "GetSecretRoute"
  /\ last'.name = secretName
  /\ last'.useCache = useCache
StartsBatch(useCache) ==
  /\ last'.op = "PostBatch"
  /\ last'.useCache = useCache
\* A step in which a suspended getSecret call resumes and settles.
Resumes == last'.op \in {"RespondGet", "RespondBatch"}
\* The entry for secretName is fresh at time t.
Fresh(cache, secretName, t) ==
  /\ MapHas(cache, secretName)
  /\ t - cache[secretName].timestamp < CACHE_TTL
\* The indices of the batch's names that the step suspended at an upstream
\* request.
BatchSent == {k \in 1..Len(batch'.names) : batch'.calls[k] = "pending"}

\* C1 as claimed: whenever a getSecret(name) call has returned v at time T,
\* a getSecret(name, useCache=true) started less than TTL after T returns v
\* and sends no upstream request.
C1_HitAfterAnyReturn ==
  [][\A n \in Names :
       (/\ StartsGet(n, TRUE)
        /\ lastReturn.done
        /\ lastReturn.name = n
        /\ now - lastReturn.at < CACHE_TTL)
       => (/\ last'.state = "returned"
           /\ last'.value = lastReturn.value
           /\ last'.sent = 0)]_vars

\* C1 as amended: while the cache holds the entry a fetch wrote for name at
\* time T with value v (not removed, not overwritten), a getSecret(name,
\* useCache=true) started less than TTL after T returns v, sends no upstream
\* request and leaves the cache as it is; in a batch, exactly the names with
\* no such entry are sent upstream.
C1_HitWhileEntryFresh ==
  [][/\ \A n \in Names :
          (StartsGet(n, TRUE) /\ Fresh(secretCache, n, now))
          => (/\ last'.state = "returned"
              /\ last'.fromCache
              /\ last'.value = secretCache[n].secret
              /\ last'.sent = 0
              /\ inflight' = inflight
              /\ secretCache' = secretCache)
     /\ StartsBatch(TRUE)
          => (/\ \A k \in 1..Len(batch'.names) :
                   Fresh(secretCache, batch'.names[k], now)
                   => batch'.calls[k] = "returned"
              /\ last'.sent = Cardinality(BatchSent)
              /\ Len(inflight') = Len(inflight) + last'.sent
              /\ secretCache' = secretCache)]_vars

\* C1 witness: a GET request was served from an entry of age TTL-1.
C1_Witness ==
  /\ last.op = "GetSecretRoute"
  /\ last.fromCache
  /\ MapHas(secretCache, last.name)
  /\ now - secretCache[last.name].timestamp = CACHE_TTL - 1

\* C2: lazy expiry.  A getSecret(name, useCache=true) is served from the
\* cache exactly when an entry exists and now - timestamp < TTL; otherwise it
\* sends one upstream request, and the value it later returns is the one it
\* decoded from that response and wrote to the cache at that moment.
C2_LazyExpiry ==
  [][/\ \A n \in Names :
          StartsGet(n, TRUE)
          => /\ last'.fromCache <=> Fresh(secretCache, n, now)
             /\ ~Fresh(secretCache, n, now)
                  => (/\ last'.state = "pending"
                      /\ last'.sent = 1
                      /\ inflight' = Append(inflight, [name |-> n, owner |-> 0]))
     /\ StartsBatch(TRUE)
          => \A k \in 1..Len(batch'.names) :
               batch'.calls[k] = "returned"
                 <=> Fresh(secretCache, batch'.names[k], now)
     /\ (Resumes /\ last'.state = "returned")
          => (/\ ~last'.fromCache
              /\ secretCache'[last'.name] =
                   [secret |-> last'.value, timestamp |-> now])]_vars

\* C2 witness: a GET request with useCache found an entry of age exactly TTL
\* and went upstream.
C2_Witness ==
  /\ last.op = "GetSecretRoute"
  /\ last.useCache
  /\ last.state = "pending"
  /\ last.sent = 1
  /\ MapHas(secretCache, last.name)
  /\ now - secretCache[last.name].timestamp = CACHE_TTL

\* C3: cache bypass.  A getSecret(name, useCache=false) sends an upstream
\* request whatever the cache holds, and a call that resumes with a value
\* overwrites the entry for name with that value and the current time.
C3_Bypass ==
  [][/\ \A n \in Names :
          StartsGet(n, FALSE)
          => (/\ last'.state = "pending"
              /\ last'.sent = 1
              /\ ~last'.fromCache
              /\ inflight' = Append(inflight, [name |-> n, owner |-> 0]))
     /\ StartsBatch(FALSE)
          => (/\ \A k \in 1..Len(batch'.names) : batch'.calls[k] = "pending"
              /\ last'.sent = Len(batch'.names))
     /\ (Resumes /\ last'.state = "returned")
          => (/\ MapHas(secretCache', last'.name)
              /\ secretCache'[last'.name].secret = last'.value
              /\ secretCache'[last'.name].timestamp = now
              /\ \A m \in Names \ {last'.name} :
                   /\ MapHas(secretCache', m) <=> MapHas(secretCache, m)
                   /\ MapHas(secretCache, m) => secretCache'[m] = secretCache[m])]_vars

\* C3 witness: a GET request with useCache=false went upstream although the
\* cache held a fresh entry for its name.
C3_Witness ==
  /\ last.op = "GetSecretRoute"
  /\ ~last.useCache
  /\ last.sent = 1
  /\ Fresh(secretCache, last.name, now)

\* C4: cache non-pollution on failure.  A step in which a getSecret call
\* fails (its upstream request rejected, or answered with neither payload)
\* leaves the whole cache as it was.
C4_FailureLeavesCache ==
  [][(Resumes /\ last'.state = "thrown") => secretCache' = secretCache]_vars

\* C4 witness: a getSecret call failed with neither payload while the cache
\* held an entry for its name.
C4_Witness ==
  /\ last.op = "RespondGet"
  /\ last.state = "thrown"
  /\ last.errName = ""
  /\ MapHas(secretCache, last.name)

\* C5 as claimed: batch result content.  Every name whose getSecret call
\* returned is a key of secrets with the value returned, every name whose
\* call threw is a key of errors with the message thrown, a call that
\* settles touches no other name's entry, and the result answered holds
\* exactly these two mappings.
C5_BatchResultContent ==
  [][/\ (last'.op = "RespondBatch" /\ last'.state = "returned")
          => (/\ MapHas(batch'.results, last'.name)
              /\ batch'.results[last'.name] = last'.value)
     /\ (last'.op = "RespondBatch" /\ last'.state = "thrown")
          => (/\ MapHas(batch'.errors, last'.name)
              /\ batch'.errors[last'.name] = Str(last'.message))
     /\ last'.op = "RespondBatch"
          => \A m \in Names \ {last'.name} :
               /\ MapHas(batch'.results, m) <=> MapHas(batch.results, m)
               /\ MapHas(batch.results, m) => batch'.results[m] = batch.results[m]
               /\ MapHas(batch'.errors, m) <=> MapHas(batch.errors, m)
               /\ MapHas(batch.errors, m) => batch'.errors[m] = batch.errors[m]
     /\ last'.op = "PostBatch"
          => \A k \in 1..Len(batch'.names) :
               batch'.calls[k] = "returned"
               => (/\ MapHas(batch'.results, batch'.names[k])
                   /\ batch'.results[batch'.names[k]] =
                        secretCache[batch'.names[k]].secret)
     /\ last'.op = "BatchReturn"
          => (/\ last'.result.secrets = batch.results
              /\ \A m \in DOMAIN batch.errors :
                   /\ last'.result.errorsDefined
                   /\ MapHas(last'.result.errors, m)
                   /\ last'.result.errors[m] = batch.errors[m])]_vars

\* C6: batch fan-in.  getMultipleSecrets returns only when every getSecret
\* call it started has settled, and it returns a result (the handler answers
\* 200): it never throws, whatever the calls did.
C6_BatchFanIn ==
  [][last'.op = "BatchReturn"
       => (/\ \A k \in 1..Len(batch.names) : batch.calls[k] # "pending"
           /\ \A i \in 1..Len(inflight) : inflight[i].owner = 0
           /\ last'.state = "returned"
           /\ last'.status = 200)]_vars

\* C6 witness: a batch returned a result in which one name succeeded and
\* another failed.
C6_Witness ==
  /\ last.op = "BatchReturn"
  /\ last.state = "returned"
  /\ last.result.errorsDefined
  /\ last.result.secrets # EmptyMap

\* C7 as claimed: the result carries an errors mapping exactly when at least
\* one getSecret call of the batch threw.
C7_ErrorsIffFailure ==
  [][last'.op = "BatchReturn"
       => (last'.result.errorsDefined
             <=> \E k \in 1..Len(batch.names) : batch.calls[k] = "thrown")]_vars

\* C8 as claimed: GET /secrets/:name answers 404 whenever the upstream
\* request was rejected with ResourceNotFoundException.
C8_NotFoundIs404 ==
  (last.op = "RespondGet" /\ last.errName = "ResourceNotFoundException")
    => last.status = 404

\* The bodies the claim says are refused: names missing, not an array, or an
\* empty array.
NamesRefused(names) ==
  \/ names.t = "undefined"
  \/ names.t # "array"
  \/ names.items = <<>>

\* C9: POST /secrets/batch answers 400, calls nothing of the adapter, sends
\* nothing upstream and changes no state when names is missing, not an array
\* or empty; otherwise it calls getMultipleSecrets once.
C9_BatchGuard ==
  [][last'.op \in {"PostBatchBadRequest", "PostBatch"}
       => IF NamesRefused(last'.body)
            THEN /\ last'.status = 400
                 /\ last'.batchCalls = 0
                 /\ last'.sent = 0
                 /\ UNCHANGED <<secretCache, inflight, batch>>
            ELSE /\ last'.batchCalls = 1
                 /\ last'.status # 400
                 /\ ~batch.active
                 /\ batch'.active
                 /\ batch'.names = last'.body.items]_vars

\* C9 witness: a body whose names is a string was answered 400 while the
\* cache held an entry.
C9_Witness ==
  /\ last.op = "PostBatchBadRequest"
  /\ last.body = Str("A")
  /\ last.status = 400
  /\ secretCache # EmptyMap

\* C10: invalidation.  clearSecretCache(name) leaves no entry for name and
\* every other entry as it was (so the cache is unchanged when name had no
\* entry); clearCache() leaves the cache empty; either one applied again
\* gives the same cache.
C10_Invalidation ==
  [][/\ last'.op = "clearSecretCache"
          => (/\ ~MapHas(secretCache', last'.name)
              /\ \A m \in Names \ {last'.name} :
                   /\ MapHas(secretCache', m) <=> MapHas(secretCache, m)
                   /\ MapHas(secretCache, m) => secretCache'[m] = secretCache[m]
              /\ ~MapHas(secretCache, last'.name) => secretCache' = secretCache
              /\ MapDelete(secretCache', last'.name) = secretCache')
     /\ last'.op = "clearCache"
          => (/\ secretCache' = EmptyMap
              /\ MapClear(secretCache') = secretCache')]_vars

\* C10 witness: clearSecretCache ran on one name while the other name had an
\* entry, which is still there.
C10_Witness ==
  /\ last.op = "clearSecretCache"
  /\ ~MapHas(secretCache, last.name)
  /\ \E m \in Names \ {last.name} : MapHas(secretCache, m)

\* The error names and messages an upstream failure can carry (the throw
\* for an empty response is an Error with its own message).
ErrorNames == {o.errName : o \in {x \in Outcomes : x.rejected}} \cup {"Error"}
ErrorMessages ==
  {o.errMessage : o \in {x \in Outcomes : x.rejected}}
    \cup {"Secret value is empty"}
\* The message holds the secret name, quoted, between one of the texts that
\* can come before it and one of those that can come after it.
MessageTails ==
  {"' not found", "'. Check IAM role permissions.", "'"}
    \cup {"': " \o m : m \in ErrorMessages}
Mentions(message, secretName) ==
  \E head \in {"Secret '", "Access denied to secret '",
                "Failed to decrypt secret '", "Failed to retrieve secret '"},
     tail \in MessageTails :
    message = head \o secretName \o tail

\* C11: error taxonomy of getSecret.  A getSecret call whose upstream
\* request failed throws (it returns no value and writes nothing); the
\* message of every failing call holds the secret name; and the message of
\* a failure differs from every message a failure of another of the four
\* categories gives for that name.
C11_ErrorTaxonomy ==
  [][Resumes =>
       /\ last'.errName # "" => (/\ last'.state = "thrown"
                                 /\ last'.value = Undefined)
       /\ last'.state = "thrown"
            => (/\ Mentions(last'.message, last'.name)
                /\ \A e \in ErrorNames, m \in ErrorMessages :
                     Category(e) # Category(IF last'.errName = "" THEN "Error"
                                           ELSE last'.errName)
                     => CatchBlock(last'.name, e, m).message # last'.message)]_vars

\* C11 witness: the call for "__proto__" failed with an upstream decryption
\* failure and threw.
C11_Witness ==
  /\ last.op = "RespondGet"
  /\ last.name = "__proto__"
  /\ last.errName = "DecryptionFailureException"
  /\ last.state = "thrown"
  /\ last.message = "Failed to decrypt secret '__proto__'"

\* What the decoding of a text gives: the parsed JSON, or the text itself.
Decoded(text) ==
  IF JSONParse(text.v).threw THEN text ELSE JSONParse(text.v).value

\* C12 as claimed: decoding order.  A response with a textual payload (any
\* string, the empty one too) makes getSecret return the decoded text; the
\* binary payload is decoded only when there is no textual payload; with
\* neither getSecret throws and the cache is left as it was.
C12_DecodingOrder ==
  [][(Resumes /\ ~last'.response.rejected) =>
       IF last'.response.SecretString.t = "string"
         THEN /\ last'.state = "returned"
              /\ last'.value = Decoded(last'.response.SecretString)
       ELSE IF last'.response.SecretBinary.t = "bytes"
         THEN /\ last'.state = "returned"
              /\ last'.value =
                   Decoded(Str(BufferToString(last'.response.SecretBinary.items)))
       ELSE /\ last'.state = "thrown"
            /\ secretCache' = secretCache]_vars

\* C12 as amended: a response with a non-empty textual payload makes
\* getSecret return the decoded text; the binary payload is decoded only
\* when the textual payload is missing or empty; with no binary payload
\* either, getSecret throws "Secret value is empty" and the cache is left as
\* it was.
C12_DecodingOrderNonEmpty ==
  [][(Resumes /\ ~last'.response.rejected) =>
       IF /\ last'.response.SecretString.t = "string"
          /\ last'.response.SecretString.v # ""
         THEN /\ last'.state = "returned"
              /\ last'.value = Decoded(last'.response.SecretString)
       ELSE IF last'.response.SecretBinary.t = "bytes"
         THEN /\ last'.state = "returned"
              /\ last'.value =
                   Decoded(Str(BufferToString(last'.response.SecretBinary.items)))
       ELSE /\ last'.state = "thrown"
            /\ last'.message = "Failed to retrieve secret '" \o last'.name
                                 \o "': Secret value is empty"
            /\ secretCache' = secretCache]_vars

\* C12 witness: a response with an empty text and a binary payload was
\* answered with the decoded binary payload.
C12_Witness ==
  /\ last.op = "RespondGet"
  /\ last.response.SecretString = Str("")
  /\ last.response.SecretBinary.t = "bytes"
  /\ last.state = "returned"
  /\ last.value = Str("hello")

\* C13: listSecrets is never cached.  Every call sends exactly one
\* ListSecrets request and suspends, whatever the cache holds and whatever
\* was listed before; when the request settles the call answers with the
\* list of that response (an empty one when it has none) or throws, sends
\* nothing again, and no step of listSecrets changes the secret cache or
\* starts a GetSecretValue request.
C13_ListNeverCached ==
  [][/\ last'.op = "ListSecretsRoute"
          => (/\ last'.listSent = 1
              /\ last'.state = "pending"
              /\ lists' = lists + 1
              /\ last'.sent = 0
              /\ UNCHANGED <<secretCache, inflight>>)
     /\ last'.op = "RespondList"
          => (/\ last'.listSent = 0
              /\ last'.sent = 0
              /\ lists' = lists - 1
              /\ last'.state \in {"returned", "thrown"}
              /\ last'.state = "returned" => last'.value.t = "array"
              /\ UNCHANGED <<secretCache, inflight>>)]_vars

\* C13 witness: a list request was sent while the cache held a fresh entry
\* for every name.
C13_Witness ==
  /\ last.op = "ListSecretsRoute"
  /\ last.listSent = 1
  /\ lists = 1
  /\ \A n \in Names : Fresh(secretCache, n, now)

\* The suspended calls for secretName.
Suspended(calls, secretName) ==
  {j \in 1..Len(calls) : calls[j].name = secretName}

\* C14: no request coalescing.  A getSecret(name) call that starts while
\* name has no fresh entry sends its own upstream request even when other
\* calls for name are suspended at theirs (a batch sends one per position
\* of such a name, repeats included); and every call that resumes with a
\* value writes the entry for name, whatever entry another call wrote
\* before it, so the entry holds the value of the call processed last.
C14_NoCoalescing ==
  [][/\ \A n \in Names :
          (StartsGet(n, TRUE) /\ ~Fresh(secretCache, n, now))
          => (/\ last'.sent = 1
              /\ Suspended(inflight', n) = Suspended(inflight, n)
                                             \cup {Len(inflight) + 1})
     /\ StartsBatch(TRUE)
          => \A n \in Names :
               ~Fresh(secretCache, n, now)
               => Cardinality(Suspended(inflight', n))
                    = Cardinality(Suspended(inflight, n))
                      + Cardinality({k \in 1..Len(batch'.names) :
                                       batch'.names[k] = n})
     /\ (Resumes /\ last'.state = "returned")
          => (/\ secretCache'[last'.name].secret = last'.value
              /\ secretCache'[last'.name].timestamp = now
              /\ Cardinality(Suspended(inflight', last'.name))
                   = Cardinality(Suspended(inflight, last'.name)) - 1)]_vars

\* C14 witness: of two GET requests for one name suspended together, the
\* later one resumed first and wrote its value, and the
\* earlier one is still suspended.
C14_Witness ==
  /\ last.op = "RespondGet"
  /\ last.state = "returned"
  /\ last.place = 2
  /\ Len(inflight) = 1
  /\ inflight[1] = [name |-> last.name, owner |-> 0]
  /\ secretCache[last.name] = [secret |-> last.value, timestamp |-> now]

\* C15: no retries.  A getSecret call sends one upstream request when it
\* starts unless it is served from the cache, and then none; the step in
\* which its request settles sends nothing, takes the call from the
\* suspended ones and reports the value or the error: a failure is thrown
\* to the caller (answered by the error middleware, or noted by the batch)
\* at once.
C15_NoRetries ==
  [][/\ last'.op = "GetSecretRoute"
          => (/\ last'.sent = IF last'.fromCache THEN 0 ELSE 1
              /\ last'.fromCache => inflight' = inflight
              /\ ~last'.fromCache
                   => inflight' = Append(inflight, [name |-> last'.name,
                                                    owner |-> 0]))
     /\ last'.op = "PostBatch"
          => (/\ last'.sent = Cardinality(BatchSent)
              /\ Len(inflight') = Len(inflight) + last'.sent
              /\ \A k \in 1..Len(batch'.names) :
                   Cardinality({j \in 1..Len(inflight') :
                                  inflight'[j].owner = k})
                     = IF k \in BatchSent THEN 1 ELSE 0)
     /\ Resumes
          => (/\ last'.sent = 0
              /\ last'.state \in {"returned", "thrown"}
              /\ inflight' = RemoveAt(inflight, last'.place)
              /\ last'.response.rejected => last'.state = "thrown"
              /\ (last'.state = "thrown" /\ last'.op = "RespondGet")
                   => last'.status = 500
              /\ (last'.state = "thrown" /\ last'.op = "RespondBatch")
                   => batch'.calls[inflight[last'.place].owner] = "thrown")
     /\ last'.op = "BatchReturn"
          => (last'.sent = 0 /\ inflight' = inflight)]_vars

\* C15 witness: the only suspended call failed with a transient upstream
\* error: it threw, and no call is suspended after it.
C15_Witness ==
  /\ last.op = "RespondGet"
  /\ last.errName = "InternalServiceError"
  /\ last.state = "thrown"
  /\ last.sent = 0
  /\ inflight = <<>>

\* C16: freshness is only regained by a successful fetch.  A step after
\* which the entry for a name is fresh, when it was stale or absent before
\* the step, is a step in which a suspended getSecret call for that name
\* resumes with a value and writes it with the current time: no tick of the
\* clock, failed call, cache hit, list or invalidation is such a step.
C16_FreshOnlyByFetch ==
  [][\A n \in Names :
       (~Fresh(secretCache, n, now) /\ Fresh(secretCache', n, now'))
       => (/\ Resumes
           /\ last'.name = n
           /\ last'.state = "returned"
           /\ ~last'.response.rejected
           /\ secretCache'[n] = [secret |-> last'.value, timestamp |-> now'])]_vars

\* C16 witness: at time TTL a call resumed with a value and wrote it: the
\* entry for its name, which was stale or absent, is fresh.
C16_Witness ==
  /\ last.op = "RespondGet"
  /\ last.state = "returned"
  /\ now = CACHE_TTL
  /\ Fresh(secretCache, last.name, now)
  /\ secretCache[last.name].timestamp = CACHE_TTL

\* C17: a cache hit leaves the cache unchanged.  A step in which getSecret
\* is served from the cache (a GET request, or the start of a batch)
\* changes no entry; the timestamp of an entry changes only when a call
\* resumes with a value for its name; and a call is served from an entry
\* only less than TTL after the entry's timestamp, however often it was read.
C17_HitLeavesCache ==
  [][/\ (last'.op = "GetSecretRoute" /\ last'.fromCache)
          => (/\ secretCache' = secretCache
              /\ now - secretCache[last'.name].timestamp < CACHE_TTL)
     /\ last'.op = "PostBatch" => secretCache' = secretCache
     /\ \A n \in Names :
          (/\ MapHas(secretCache, n)
           /\ MapHas(secretCache', n)
           /\ secretCache'[n] # secretCache[n])
          => (Resumes /\ last'.name = n /\ last'.state = "returned")]_vars

\* C17 witness: an entry written at time 0 was read at time TTL-1 and is
\* stale at time TTL: the GET request for it goes upstream.
C17_Witness ==
  /\ last.op = "GetSecretRoute"
  /\ last.useCache
  /\ last.sent = 1
  /\ now = CACHE_TTL
  /\ MapHas(secretCache, last.name)
  /\ secretCache[last.name].timestamp = 0
  /\ lastReturn = Returned(last.name, CACHE_TTL - 1, secretCache[last.name].secret)

\* The names of a sequence.
Range(q) == {q[k] : k \in 1..Len(q)}

\* C18 as claimed: in the result of getMultipleSecrets every input name is a
\* key of exactly one of secrets and errors: the two key sets are disjoint
\* and their union is the set of the input names.
C18_KeysPartition ==
  [][last'.op = "BatchReturn"
       => (/\ ObjectKeys(last'.result.secrets)
                \cap ObjectKeys(last'.result.errors) = {}
           /\ ObjectKeys(last'.result.secrets)
                \cup ObjectKeys(last'.result.errors) = Range(batch.names))]_vars

\* The latest step was an invalidation of secretName.
JustInvalidated(secretName) ==
  \/ last.op = "clearCache"
  \/ last.op = "clearSecretCache" /\ last.name = secretName

\* C19 as claimed, for the step that follows an invalidation: after
\* clearSecretCache(name) or clearCache() the cache holds no entry for name
\* until a getSecret(name) call started after the invalidation completes
\* with a value.  A call started after it is suspended for at least one
\* step, so the step right after the invalidation leaves no entry for
\* name; and a getSecret(name, useCache=true) started in that step sends an
\* upstream request.
C19_InvalidationNotUndone ==
  [][\A n \in Names :
       JustInvalidated(n)
       => (/\ ~MapHas(secretCache', n)
           /\ StartsGet(n, TRUE) => last'.sent = 1)]_vars

\* C20 as claimed, for two GET requests whose responses are processed one
\* right after the other: once the cache holds the value returned for an
\* upstream request, no later write for that name stores the value returned
\* for a request issued before that one.  The suspended calls are kept in
\* the order their requests were issued, so the call that writes next had
\* no place before the one that wrote last.
C20_NoStaleOverwrite ==
  [][(/\ last.op = "RespondGet"
      /\ last.state = "returned"
      /\ last'.op = "RespondGet"
      /\ last'.state = "returned"
      /\ last'.name = last.name)
     => last'.place >= last.place]_vars

\* A step in which one of the first p suspended calls resumes: it returns
\* or throws.
ResumesUpTo(p) ==
  /\ Resumes
  /\ last'.place <= p
  /\ last'.state \in {"returned", "thrown"}
  /\ inflight' = RemoveAt(inflight, last'.place)

\* C21: termination, when every upstream request is answered in the end.
\* Calls are suspended in the order they started and leave only by
\* resuming, so the call at place p does not stay there for ever: again
\* and again fewer than p calls are suspended, or one of the first p
\* resumes (it returns or throws) and those behind it move up; hence every
\* getSecret call returns or throws in the end.  Every
\* getMultipleSecrets call returns its result in the end; it sends at most
\* one upstream request per element of names when it starts and none
\* afterwards.
C21_Termination ==
  /\ \A p \in 1..(MaxPending + MaxNames) :
        []<>(Len(inflight) < p) \/ []<><<ResumesUpTo(p)>>_vars
  /\ batch.active ~> (/\ last.op = "BatchReturn"
                      /\ last.state = "returned"
                      /\ ~batch.active)
  /\ [][/\ last'.op = "PostBatch"
             => (/\ last'.sent <= Len(batch'.names)
                 /\ Len(inflight') = Len(inflight) + last'.sent
                 /\ \A k \in 1..Len(batch'.names) :
                      Cardinality({j \in 1..Len(inflight') :
                                     inflight'[j].owner = k}) <= 1)
        /\ last'.op \in {"RespondBatch", "BatchReturn"}
             => (last'.sent = 0 /\ Len(inflight') <= Len(inflight))]_vars

\* C21 witness: a batch one call of which was suspended at its upstream
\* request and failed has returned its result, and no call is suspended.
C21_Witness ==
  /\ last.op = "BatchReturn"
  /\ last.state = "returned"
  /\ last.result.errorsDefined
  /\ ~batch.active
  /\ inflight = <<>>

====
